---- MODULE Spec2Model ----
(***************************************************************************)
(* mediafire.py: the folder walker (get_folders), the per-directory batch  *)
(* driver (download_folder), the download threads (download_file), the     *)
(* BoundedSemaphore that limits them, the cancellation Event and the       *)
(* ProgressTracker counters.                                               *)
(***************************************************************************)
EXTENDS Integers, Sequences, FiniteSets, TLC

\* ------------------------------------------------------------------ bounds
MaxFiles == 3
MaxThreads == 2
FileSize == 1
PageSize == 2
MaxLen == 2

\* ------------------------------------------------------- the remote tree
\* Folder keys of the remote tree; 0 is the folder the URL names.
Dirs == {0, 1, 2, 3, 4}
RootKey == CHOOSE d \in Dirs : \A e \in Dirs : d <= e

\* The subfolders of a folder, in the order of the remote listing.
RemoteFolders(d) ==
    CASE d = 0 -> <<1, 2, 3>>
      [] d = 1 -> <<4>>
      [] OTHER -> <<>>

Files == 1..MaxFiles

\* A path is the sequence of its components; "." and ".." are the
\* components the operating system resolves.
Component(d) == <<"d0", "d1", "d2", "d3", "d4">>[d + 1]

\* folder["name"] of every folder: names of one component each, and the same
\* with one name that holds a path separator ("d1/sub") or is ".".
PlainNames == [d \in Dirs |-> <<Component(d)>>]
FolderNamings ==
    { PlainNames,
      [PlainNames EXCEPT ![1] = <<"d1", "sub">>],
      [PlainNames EXCEPT ![1] = <<".">>] }

\* ------------------------------------------------------------- variables
VARIABLES
    threads_num,   \* the -t argument: permits of every batch's semaphore
    names,         \* remote listing: the name of each folder
    dirOf,         \* remote listing: the folder each file is listed under
    fs0,           \* the local file at each file's target path before the run
    gzip,          \* remote: the listed links answer with the gzip interstitial page
    fs,            \* the local file at each file's target path
    mpc,           \* main thread: position in main/get_folders/download_folder
    stack,         \* main thread: the get_folders calls in progress
    cwd,           \* the process's working directory, relative to the one it
                   \* started in
    data,          \* download_folder: the files listed so far
    chunk,         \* download_folder: the next listing page to request
    more_chunks,   \* download_folder: the last page's more_chunks
    started,       \* download_folder: threads started so far
    limiter,       \* per batch: BoundedSemaphore._value
    event,         \* per batch: Event flag
    progress,      \* per batch: ProgressTracker counters
    tpc,           \* per file: position of its download_file thread
    outcome,       \* per file: how its download_file call ended
    hist,          \* per file: what its download_file call has done so far
    visited,       \* the folders download_folder was called for, in order
    exitStatus,    \* process exit status, -1 while running
    listed_names,  \* file["filename"] of the entries of one folder's listing
    filenames      \* the local filename download_file computed for each so far

vars == <<threads_num, names, dirOf, fs0, gzip, fs, mpc, stack, cwd, data, chunk,
          more_chunks, started, limiter, event, progress, tpc, outcome,
          hist, visited, exitStatus, listed_names, filenames>>

mainVars == <<mpc, stack, cwd, data, chunk, more_chunks, started, visited,
              exitStatus>>
inputVars == <<threads_num, names, dirOf, fs0, gzip, listed_names, filenames>>

\* --------------------------------------------------------- local files
\* Bytes are "r" (the bytes the remote serves, which the listed hash is of)
\* or "x" (anything else); src tells a byte written by this run from one
\* that was on disk before it.
OldChunk(b) == [src |-> "old", byte |-> b]
RunChunk == [src |-> "run", byte |-> "r"]

Absent == [kind |-> "absent", content |-> <<>>]
Unreadable == [kind |-> "unreadable", content |-> <<>>]
FileOf(c) == [kind |-> "file", content |-> c]
Good == FileOf([i \in 1..FileSize |-> OldChunk("r")])
Stale == FileOf(<<OldChunk("x")>>)

\* os.path.exists: true for a file and for an entry open() cannot read
\* (a directory, a file without read permission).
path_exists(f) == f.kind # "absent"

\* hash_file: the digest is a function of the bytes read, whoever wrote them.
hash_file(f) == [i \in 1..Len(f.content) |-> f.content[i].byte]

\* file["hash"]: the digest of the bytes the remote serves.
ListedHash == [i \in 1..FileSize |-> "r"]

\* int(file.get("size", 0)), in chunks of buffer_size bytes.
file_size(f) == FileSize

\* ------------------------------------------------------------ progress
NewProgress(n, size) ==
    [total_files |-> n, total_size |-> size, completed_files |-> 0,
     downloaded_bytes |-> 0, failed_files |-> 0, skipped_files |-> 0]

B2N(b) == IF b THEN 1 ELSE 0

\* Every byte reported is added twice.
update_TwiceBytes(p, bytes_downloaded, file_completed, file_failed, file_skipped) ==
    [p EXCEPT !.downloaded_bytes = @ + 2 * bytes_downloaded,
              !.completed_files = @ + B2N(file_completed),
              !.failed_files = @ + B2N(file_failed),
              !.skipped_files = @ + B2N(file_skipped)]

\* ProgressTracker.update
update(p, bytes_downloaded, file_completed, file_failed, file_skipped) ==
    [p EXCEPT !.downloaded_bytes = @ + bytes_downloaded,
              !.completed_files = @ + B2N(file_completed),
              !.failed_files = @ + B2N(file_failed),
              !.skipped_files = @ + B2N(file_skipped)]

NewHist ==
    [acquired |-> FALSE, releases |-> 0, requests |-> 0, removed |-> FALSE,
     opened |-> FALSE, sawCancel |-> FALSE, lateStart |-> FALSE,
     streamed |-> <<>>,
     completed |-> 0, failed |-> 0, skipped |-> 0, bytes |-> 0]

\* ----------------------------------------------------------------- Init
\* The remote listings explored: every file under the folder visited last
\* (one batch of MaxFiles threads, its listing in pages of PageSize), and
\* one file under each of the folders 0, 1 and 4, in listing order.
Listings ==
    { [f \in Files |-> 2],
      [f \in Files |-> IF f = 1 THEN 0 ELSE IF f = 2 THEN 1 ELSE 4] }

\* The local directories explored: any mix of missing, matching, stale and
\* unreadable entries in which the files that are there are alike.
LocalStates ==
    {g \in [Files -> {Absent, Good, Stale, Unreadable}] :
        \A i, j \in Files : g[i] = g[j] \/ g[i] = Absent \/ g[j] = Absent}

\* Every download scenario runs with the plain folder names; the other
\* namings run with one of them.
Init ==
    /\ threads_num \in 1..MaxThreads
    /\ dirOf \in Listings
    /\ fs0 \in LocalStates
    /\ gzip \in BOOLEAN
    /\ names \in FolderNamings
    /\ names # PlainNames =>
          /\ threads_num = MaxThreads
          /\ dirOf # [f \in Files |-> 2]
          /\ fs0 = [f \in Files |-> Absent]
          /\ ~gzip
    /\ fs = fs0
    /\ mpc = "main"
    /\ stack = <<>>
    /\ cwd = <<>>
    /\ data = <<>>
    /\ chunk = 1
    /\ more_chunks = TRUE
    /\ started = 0
    /\ limiter = [d \in Dirs |-> 0]
    /\ event = [d \in Dirs |-> FALSE]
    /\ progress = [d \in Dirs |-> NewProgress(0, 0)]
    /\ tpc = [f \in Files |-> "none"]
    /\ outcome = [f \in Files |-> "none"]
    /\ hist = [f \in Files |-> NewHist]
    /\ visited = <<>>
    /\ exitStatus = -1
    /\ listed_names = <<>>
    /\ filenames = <<>>

\* ------------------------------------------------------ the semaphore
Batch(d) == {f \in Files : dirOf[f] = d}

\* BoundedSemaphore.release raises ValueError instead of counting past the
\* initial value.
ReleaseRaises(d) == limiter[d] >= threads_num

Released(d) == IF ReleaseRaises(d) THEN limiter
               ELSE [limiter EXCEPT ![d] = @ + 1]

\* --------------------------------------------------- download_file
Started(f) == tpc[f] \notin {"none", "created"}
Ended(f) == tpc[f] = "ended"
\* Thread.is_alive
is_alive(f) == Started(f) /\ ~Ended(f)

\* limiter.acquire()
T_Acquire(f) ==
    /\ tpc[f] = "acquire"
    /\ limiter[dirOf[f]] > 0
    /\ limiter' = [limiter EXCEPT ![dirOf[f]] = @ - 1]
    /\ tpc' = [tpc EXCEPT ![f] = "verify"]
    /\ hist' = [hist EXCEPT ![f].acquired = TRUE,
                            ![f].lateStart = event[dirOf[f]]]
    /\ UNCHANGED <<fs, event, progress, outcome, mainVars, inputVars>>

\* The digest compared with the listed one is not the file's.
HashMatches_WrongDigest(file) == hash_file(Absent) = ListedHash

\* hash_file(filename) == file["hash"]
HashMatches(file) == hash_file(file) = ListedHash

\* if event and event.is_set()
CancelledAtStart(d) == event[d]

\* The stale file is left where it is.
RemoveStale_Keep(file) == file

\* remove(filename) of the file whose hash differs from the listed one
RemoveStale(file) == Absent

\* The existing-file check and the event check that follows it: skip on a
\* matching hash, delete on a mismatch, return when cancelled. hash_file
\* opens the path outside any try block: an entry it cannot read ends the
\* thread with the exception, the permit still held.
T_Verify(f) ==
    /\ tpc[f] = "verify"
    /\ IF path_exists(fs[f]) /\ fs[f].kind = "unreadable"
         THEN /\ tpc' = [tpc EXCEPT ![f] = "ended"]
              /\ outcome' = [outcome EXCEPT ![f] = "Died"]
              /\ UNCHANGED <<fs, progress, hist>>
       ELSE IF path_exists(fs[f]) /\ HashMatches(fs[f])
         THEN /\ progress' = [progress EXCEPT ![dirOf[f]] =
                                update(@, file_size(f), FALSE, FALSE, TRUE)]
              /\ hist' = [hist EXCEPT ![f].skipped = @ + 1,
                                      ![f].bytes = @ + file_size(f)]
              /\ outcome' = [outcome EXCEPT ![f] = "Skipped"]
              /\ tpc' = [tpc EXCEPT ![f] = "release_return"]
              /\ UNCHANGED fs
       ELSE /\ fs' = [fs EXCEPT ![f] = IF path_exists(@) THEN RemoveStale(@) ELSE @]
            /\ hist' = [hist EXCEPT ![f].removed = path_exists(fs[f]) /\ ~path_exists(fs'[f])]
            /\ IF CancelledAtStart(dirOf[f])
                 THEN /\ tpc' = [tpc EXCEPT ![f] = "release_return"]
                      /\ outcome' = [outcome EXCEPT ![f] = "Cancelled"]
                 ELSE /\ tpc' = [tpc EXCEPT ![f] = "request"]
                      /\ UNCHANGED outcome
            /\ UNCHANGED progress
    /\ UNCHANGED <<limiter, event, mainVars, inputVars>>

\* limiter.release(); return, on the two paths that are outside the try
\* block (skip, cancellation at start).
T_ReleaseReturn(f) ==
    /\ tpc[f] = "release_return"
    /\ limiter' = Released(dirOf[f])
    /\ hist' = [hist EXCEPT ![f].releases = @ + 1]
    /\ tpc' = [tpc EXCEPT ![f] = "ended"]
    /\ UNCHANGED <<fs, event, progress, outcome, mainVars, inputVars>>

\* open(filename, "wb"): creates the file, or truncates the one there.
OpenForWriting(file) == FileOf(<<>>)

RequestResults == {"ok", "no_button", "no_href", "http_error", "raise"}

\* The try block up to open(): the request to the listed link; when the
\* answer is the gzip interstitial page, the search for the download button
\* and its href and the second request; the status check; open(filename, "wb").
T_Request(f) ==
    /\ tpc[f] = "request"
    /\ \E r \in RequestResults, n \in {1, 2}, openFails \in BOOLEAN :
        /\ r \in {"no_button", "no_href"} => gzip /\ n = 1
        /\ r \in {"ok", "http_error"} => n = IF gzip THEN 2 ELSE 1
        /\ n = 2 => gzip
        /\ openFails => r = "ok"
        /\ hist' = [hist EXCEPT ![f].requests = n,
                                ![f].failed = @ + B2N(r \in {"no_button", "no_href", "http_error"}),
                                ![f].opened = (r = "ok" /\ ~openFails)]
        /\ CASE r = "raise" \/ openFails ->
                  /\ tpc' = [tpc EXCEPT ![f] = "except"]
                  /\ UNCHANGED <<fs, progress, outcome>>
             [] r \in {"no_button", "no_href", "http_error"} ->
                  /\ progress' = [progress EXCEPT ![dirOf[f]] =
                                    update(@, 0, FALSE, TRUE, FALSE)]
                  /\ outcome' = [outcome EXCEPT ![f] = "Failed"]
                  /\ tpc' = [tpc EXCEPT ![f] = "release_in_try"]
                  /\ UNCHANGED fs
             [] OTHER ->
                  /\ fs' = [fs EXCEPT ![f] = OpenForWriting(@)]
                  /\ tpc' = [tpc EXCEPT ![f] = "stream"]
                  /\ UNCHANGED <<progress, outcome>>
    /\ UNCHANGED <<limiter, event, mainVars, inputVars>>

\* The cancellation branch closes the file and leaves it.
CancelCleanup_Keep(file) == file

\* What the cancellation branch of the streaming loop leaves at the path:
\* f.close(); remove(filename).
CancelCleanup(file) == Absent

\* One turn of the streaming loop: response.read, the event check, the end
\* of the stream, f.write and progress.update(len(chunk)); after the loop,
\* progress.update(0, file_completed=True). The remote ends the stream
\* after at most FileSize chunks.
T_Stream(f) ==
    /\ tpc[f] = "stream"
    /\ \/ /\ tpc' = [tpc EXCEPT ![f] = "except"]          \* read or write raises
          /\ UNCHANGED <<fs, progress, outcome, hist>>
       \/ /\ event[dirOf[f]]
          /\ fs' = [fs EXCEPT ![f] = CancelCleanup(@)]
          /\ hist' = [hist EXCEPT ![f].sawCancel = TRUE]
          /\ outcome' = [outcome EXCEPT ![f] = "Cancelled"]
          /\ tpc' = [tpc EXCEPT ![f] = "release_in_try"]
          /\ UNCHANGED progress
       \/ /\ ~event[dirOf[f]]                               \* not chunk: break
          /\ progress' = [progress EXCEPT ![dirOf[f]] =
                            update(@, 0, TRUE, FALSE, FALSE)]
          /\ hist' = [hist EXCEPT ![f].completed = @ + 1]
          /\ outcome' = [outcome EXCEPT ![f] = "Completed"]
          /\ tpc' = [tpc EXCEPT ![f] = "finally"]
          /\ UNCHANGED fs
       \/ /\ ~event[dirOf[f]]
          /\ Len(hist[f].streamed) < FileSize
          /\ fs' = [fs EXCEPT ![f].content = Append(@, RunChunk)]
          /\ hist' = [hist EXCEPT ![f].streamed = Append(@, RunChunk),
                                  ![f].bytes = @ + 1]
          /\ progress' = [progress EXCEPT ![dirOf[f]] =
                            update(@, 1, FALSE, FALSE, FALSE)]
          /\ UNCHANGED <<tpc, outcome>>
    /\ UNCHANGED <<limiter, event, mainVars, inputVars>>

\* limiter.release() followed by return inside the try block (missing
\* button, missing href, HTTP error status, cancellation while streaming).
\* A ValueError from release is caught by the except clause; the return
\* runs the finally clause.
T_ReleaseInTry(f) ==
    /\ tpc[f] = "release_in_try"
    /\ limiter' = Released(dirOf[f])
    /\ hist' = [hist EXCEPT ![f].releases = @ + 1]
    /\ tpc' = [tpc EXCEPT ![f] =
                 IF ReleaseRaises(dirOf[f]) THEN "except" ELSE "finally"]
    /\ UNCHANGED <<fs, event, progress, outcome, mainVars, inputVars>>

\* The except clause leaves the file where it is.
ExceptCleanup_Keep(file) == file

\* if path.exists(filename): remove(filename)
ExceptCleanup(file) == IF path_exists(file) THEN Absent ELSE file

\* except Exception: remove the file if it is there, count the file failed.
T_Except(f) ==
    /\ tpc[f] = "except"
    /\ fs' = [fs EXCEPT ![f] = ExceptCleanup(@)]
    /\ progress' = [progress EXCEPT ![dirOf[f]] =
                      update(@, 0, FALSE, TRUE, FALSE)]
    /\ hist' = [hist EXCEPT ![f].failed = @ + 1]
    /\ outcome' = [outcome EXCEPT ![f] = "Failed"]
    /\ tpc' = [tpc EXCEPT ![f] = "finally"]
    /\ UNCHANGED <<limiter, event, mainVars, inputVars>>

\* finally: limiter.release(). It runs after the try block's returns, too.
T_Finally(f) ==
    /\ tpc[f] = "finally"
    /\ limiter' = Released(dirOf[f])
    /\ hist' = [hist EXCEPT ![f].releases = @ + 1]
    /\ tpc' = [tpc EXCEPT ![f] = "ended"]
    /\ UNCHANGED <<fs, event, progress, outcome, mainVars, inputVars>>

download_file(f) ==
    \/ T_Acquire(f)
    \/ T_Verify(f)
    \/ T_ReleaseReturn(f)
    \/ T_Request(f)
    \/ T_Stream(f)
    \/ T_ReleaseInTry(f)
    \/ T_Except(f)
    \/ T_Finally(f)

\* ------------------------------------------ main, get_folders, download_folder
Cur == stack[Len(stack)]

\* A call of get_folders: its arguments, the subfolders it loops over and the
\* position of the loop; before is the working directory at the time of the
\* recursive call the loop made last.
Frame(key, name) ==
    [folder_key |-> key, folder_name |-> name, folders |-> <<>>, idx |-> 0,
     before |-> <<>>]

\* chdir(path) from the directory dir: the components of path one after the
\* other; ".." is the parent of where the walk is by then.
RECURSIVE chdir(_, _)
chdir(dir, name) ==
    IF name = <<>> THEN dir
    ELSE LET c == Head(name)
             step == CASE c = "." -> dir
                       [] c = ".." -> IF dir = <<>> THEN dir
                                      ELSE SubSeq(dir, 1, Len(dir) - 1)
                       [] OTHER -> Append(dir, c)
         IN chdir(step, Tail(name))


\* The files of a folder, in the order of the remote listing.
RECURSIVE SeqOf(_)
SeqOf(S) ==
    IF S = {} THEN <<>>
    ELSE LET m == CHOOSE x \in S : \A y \in S : x <= y
         IN <<m>> \o SeqOf(S \ {m})

RemoteFiles(d) == SeqOf(Batch(d))

\* The remote's answer to get_content.php?content_type=files&chunk=c.
FilesPage(d, c) ==
    LET all == RemoteFiles(d)
        lo == (c - 1) * PageSize + 1
        hi == IF c * PageSize < Len(all) THEN c * PageSize ELSE Len(all)
    IN [files |-> SubSeq(all, lo, hi), more_chunks |-> c * PageSize < Len(all)]

\* The remote's answer to get_content.php?content_type=folders&chunk=c.
FoldersPage(d, c) ==
    LET all == RemoteFolders(d)
        lo == (c - 1) * PageSize + 1
        hi == IF c * PageSize < Len(all) THEN c * PageSize ELSE Len(all)
    IN [folders |-> SubSeq(all, lo, hi), more_chunks |-> c * PageSize < Len(all)]

\* The chunk argument get_folders passes to get_files_or_folders_api_endpoint
\* for the subfolder listing: none, so the default.
FoldersChunk == 1

\* main catches BaseException where it catches Exception.
ExitCodeOf_CatchAll(exc) == IF exc.type = "KeyboardInterrupt" THEN 0 ELSE 1

\* What the process exits with when an exception leaves get_folders: main
\* catches KeyboardInterrupt (exit 0) and Exception (exit 1); SystemExit is
\* neither and keeps its code.
ExitCodeOf(exc) ==
    CASE exc.type = "SystemExit" -> exc.code
      [] exc.type = "KeyboardInterrupt" -> 0
      [] OTHER -> 1

Raise(exc) ==
    /\ mpc' = "exited"
    /\ exitStatus' = ExitCodeOf(exc)

SystemExit(code) == [type |-> "SystemExit", code |-> code]
OtherException == [type |-> "Exception", code |-> 1]

threadVars == <<fs, limiter, event, progress, tpc, outcome, hist>>

\* main: a folder link calls get_folders(key, output_path, threads_num, first=True)
Main_Call ==
    /\ mpc = "main"
    /\ stack' = <<Frame(RootKey, names[RootKey])>>
    /\ mpc' = "get_info"
    /\ UNCHANGED <<cwd, data, chunk, more_chunks, started, visited, exitStatus,
                   threadVars, inputVars>>

\* get_folders, first=True: the folder's info; exit(1) unless the status is 200
GetFolders_Info ==
    /\ mpc = "get_info"
    /\ \/ /\ mpc' = "enter"
          /\ UNCHANGED exitStatus
       \/ Raise(SystemExit(1))
    /\ UNCHANGED <<stack, cwd, data, chunk, more_chunks, started, visited,
                   threadVars, inputVars>>

\* get_folders: makedirs, chdir(folder_name), and the call of download_folder
GetFolders_Enter ==
    /\ mpc = "enter"
    /\ cwd' = chdir(cwd, Cur.folder_name)
    /\ visited' = Append(visited, Cur.folder_key)
    /\ data' = <<>>
    /\ chunk' = 1
    /\ more_chunks' = TRUE
    /\ mpc' = "list"
    /\ UNCHANGED <<stack, started, exitStatus, threadVars, inputVars>>

\* The page's files replace the ones listed so far.
AddPage_Overwrite(listed, r_json) == r_json.files

\* data += r_json["response"]["folder_content"]["files"]
AddPage(listed, r_json) == listed \o r_json.files

\* download_folder: one turn of the listing loop; a response without the
\* expected keys (KeyError) returns from download_folder
DownloadFolder_List ==
    /\ mpc = "list"
    /\ more_chunks
    /\ \/ LET r_json == FilesPage(Cur.folder_key, chunk)
          IN /\ more_chunks' = r_json.more_chunks
             /\ data' = AddPage(data, r_json)
             /\ chunk' = chunk + 1
             /\ UNCHANGED mpc
       \/ /\ mpc' = "list_folders"
          /\ UNCHANGED <<data, chunk, more_chunks>>
    /\ UNCHANGED <<stack, cwd, started, visited, exitStatus, threadVars,
                   inputVars>>

RECURSIVE SumSizes(_)
SumSizes(files) ==
    IF files = <<>> THEN 0 ELSE file_size(Head(files)) + SumSizes(Tail(files))

\* download_folder: no file: return; else the ProgressTracker, the Event, the
\* BoundedSemaphore and one Thread per file
DownloadFolder_Create ==
    /\ mpc = "list"
    /\ ~more_chunks
    /\ IF data = <<>>
         THEN /\ mpc' = "list_folders"
              /\ UNCHANGED <<started, limiter, event, progress, tpc>>
         ELSE /\ progress' = [progress EXCEPT ![Cur.folder_key] =
                                NewProgress(Len(data), SumSizes(data))]
              /\ event' = [event EXCEPT ![Cur.folder_key] = FALSE]
              /\ limiter' = [limiter EXCEPT ![Cur.folder_key] = threads_num]
              /\ tpc' = [f \in Files |->
                           IF \E i \in 1..Len(data) : data[i] = f
                             THEN "created" ELSE tpc[f]]
              /\ started' = 0
              /\ mpc' = "start"
    /\ UNCHANGED <<stack, cwd, data, chunk, more_chunks, visited, exitStatus,
                   fs, outcome, hist, inputVars>>

\* download_folder: for thread in total_threads: thread.start()
DownloadFolder_Start ==
    /\ mpc = "start"
    /\ started < Len(data)
    /\ tpc' = [tpc EXCEPT ![data[started + 1]] = "acquire"]
    /\ started' = started + 1
    /\ mpc' = IF started + 1 = Len(data) THEN "wait" ELSE "start"
    /\ UNCHANGED <<stack, cwd, data, chunk, more_chunks, visited, exitStatus,
                   fs, limiter, event, progress, outcome, hist, inputVars>>

\* The wait loop and the joins return at once.
AllThreadsDead_NoWait(files) == TRUE

\* all(not t.is_alive() for t in total_threads), and what thread.join() of
\* every thread waits for
AllThreadsDead(files) == \A i \in 1..Len(files) : ~is_alive(files[i])

\* download_folder: the wait loop ends once no thread is alive
DownloadFolder_Wait ==
    /\ mpc = "wait"
    /\ AllThreadsDead(data)
    /\ mpc' = "finish"
    /\ UNCHANGED <<stack, cwd, data, chunk, more_chunks, started, visited,
                   exitStatus, threadVars, inputVars>>

\* download_folder: KeyboardInterrupt in the wait loop: event.set()
DownloadFolder_Interrupt ==
    /\ mpc = "wait"
    /\ event' = [event EXCEPT ![Cur.folder_key] = TRUE]
    /\ mpc' = "join"
    /\ UNCHANGED <<stack, cwd, data, chunk, more_chunks, started, visited,
                   exitStatus, fs, limiter, progress, tpc, outcome, hist,
                   inputVars>>

\* download_folder: the handler joins every thread, then exit(0)
DownloadFolder_Join ==
    /\ mpc = "join"
    /\ AllThreadsDead(data)
    /\ Raise(SystemExit(0))
    /\ UNCHANGED <<stack, cwd, data, chunk, more_chunks, started, visited,
                   threadVars, inputVars>>

\* download_folder: progress.finish() and return
DownloadFolder_Finish ==
    /\ mpc = "finish"
    /\ mpc' = "list_folders"
    /\ UNCHANGED <<stack, cwd, data, chunk, more_chunks, started, visited,
                   exitStatus, threadVars, inputVars>>

\* get_folders: the subfolder listing, one request, its more_chunks not
\* looked at; a response without the expected keys raises out of get_folders
GetFolders_ListFolders ==
    /\ mpc = "list_folders"
    /\ \/ /\ stack' = [stack EXCEPT ![Len(stack)].folders =
                             FoldersPage(Cur.folder_key, FoldersChunk).folders,
                                    ![Len(stack)].idx = 0]
          /\ mpc' = "loop"
          /\ UNCHANGED exitStatus
       \/ /\ Raise(OtherException)
          /\ UNCHANGED stack
    /\ UNCHANGED <<cwd, data, chunk, more_chunks, started, visited,
                   threadVars, inputVars>>

\* get_folders: for folder in folders: get_folders(folder["folderkey"], ...);
\* after the last one the call returns, and main with it
GetFolders_Loop ==
    /\ mpc = "loop"
    /\ IF Cur.idx < Len(Cur.folders)
         THEN /\ stack' = Append([stack EXCEPT ![Len(stack)].before = cwd],
                                  Frame(Cur.folders[Cur.idx + 1],
                                        names[Cur.folders[Cur.idx + 1]]))
              /\ mpc' = "enter"
              /\ UNCHANGED exitStatus
       ELSE IF Len(stack) = 1
         THEN /\ stack' = <<>>
              /\ mpc' = "exited"
              /\ exitStatus' = 0
       ELSE /\ stack' = SubSeq(stack, 1, Len(stack) - 1)
            /\ mpc' = "chdir_up"
            /\ UNCHANGED exitStatus
    /\ UNCHANGED <<cwd, data, chunk, more_chunks, started, visited,
                   threadVars, inputVars>>

\* get_folders: chdir("..") after the recursive call
GetFolders_ChdirUp ==
    /\ mpc = "chdir_up"
    /\ cwd' = chdir(cwd, <<"..">>)
    /\ stack' = [stack EXCEPT ![Len(stack)].idx = @ + 1]
    /\ mpc' = "loop"
    /\ UNCHANGED <<data, chunk, more_chunks, started, visited, exitStatus,
                   threadVars, inputVars>>

Next ==
    \/ Main_Call
    \/ GetFolders_Info
    \/ GetFolders_Enter
    \/ DownloadFolder_List
    \/ DownloadFolder_Create
    \/ DownloadFolder_Start
    \/ DownloadFolder_Wait
    \/ DownloadFolder_Interrupt
    \/ DownloadFolder_Join
    \/ DownloadFolder_Finish
    \/ GetFolders_ListFolders
    \/ GetFolders_Loop
    \/ GetFolders_ChdirUp
    \/ \E f \in Files : download_file(f)

Spec == Init /\ [][Next]_vars

\* ------------------------------------------ normalize_file_or_folder_name
\* A name is the sequence of its characters: letters and digits ("a", "7"),
\* the four characters of the allow list, and two others.
Chars == {"a", "7", "-", "_", ".", " ", "/", "?"}

\* str.isalnum of one character
isalnum(char) == char \in {"a", "7"}

NON_ALPHANUM_FILE_OR_FOLDER_NAME_CHARACTERS == {"-", "_", ".", " "}

\* The replacement is a character outside the allow list.
REPLACEMENT_NotAllowed == "?"

NON_ALPHANUM_FILE_OR_FOLDER_NAME_CHARACTER_REPLACEMENT == "-"

normalize_file_or_folder_name(filename) ==
    [i \in 1..Len(filename) |->
        IF isalnum(filename[i])
           \/ filename[i] \in NON_ALPHANUM_FILE_OR_FOLDER_NAME_CHARACTERS
          THEN filename[i]
          ELSE NON_ALPHANUM_FILE_OR_FOLDER_NAME_CHARACTER_REPLACEMENT]

Names == UNION {[1..n -> Chars] : n \in 0..MaxLen}

\* Two entries of one folder's listing, whatever their names; no walk, no
\* batch.
NormInit ==
    /\ listed_names \in [1..2 -> Names]
    /\ filenames = <<>>
    /\ threads_num = 1
    /\ names = PlainNames
    /\ dirOf = [f \in Files |-> 2]
    /\ fs0 = [f \in Files |-> Absent]
    /\ gzip = FALSE
    /\ fs = fs0
    /\ mpc = "main"
    /\ stack = <<>>
    /\ cwd = <<>>
    /\ data = <<>>
    /\ chunk = 1
    /\ more_chunks = TRUE
    /\ started = 0
    /\ limiter = [d \in Dirs |-> 0]
    /\ event = [d \in Dirs |-> FALSE]
    /\ progress = [d \in Dirs |-> NewProgress(0, 0)]
    /\ tpc = [f \in Files |-> "none"]
    /\ outcome = [f \in Files |-> "none"]
    /\ hist = [f \in Files |-> NewHist]
    /\ visited = <<>>
    /\ exitStatus = -1

\* download_file, line 404, of the next entry:
\* filename = normalize_file_or_folder_name(file["filename"])
NormalizeName ==
    /\ Len(filenames) < Len(listed_names)
    /\ filenames' = Append(filenames,
           normalize_file_or_folder_name(listed_names[Len(filenames) + 1]))
    /\ UNCHANGED <<listed_names, threads_num, names, dirOf, fs0, gzip,
                   mainVars, threadVars>>

NormNext == NormalizeName

NormSpec == NormInit /\ [][NormNext]_vars

\* Every thread runs while it can take a step, and so does the main thread;
\* nothing obliges the user to press Ctrl-C.
MainStep ==
    \/ Main_Call
    \/ GetFolders_Info
    \/ GetFolders_Enter
    \/ DownloadFolder_List
    \/ DownloadFolder_Create
    \/ DownloadFolder_Start
    \/ DownloadFolder_Wait
    \/ DownloadFolder_Join
    \/ DownloadFolder_Finish
    \/ GetFolders_ListFolders
    \/ GetFolders_Loop
    \/ GetFolders_ChdirUp

FairSpec ==
    /\ Spec
    /\ WF_vars(MainStep)
    /\ \A f \in Files : WF_vars(download_file(f))

\* ================================================================ claims
BatchMade(d) == progress[d].total_files > 0
Counted(p) == p.completed_files + p.failed_files + p.skipped_files

\* Verifying, resolving or downloading: past acquire, before any release.
Active(f) == tpc[f] \in {"verify", "request", "stream"}

\* C1: in every reachable state, the threads of a batch that are verifying,
\* resolving or downloading are at most threads_num.
C1_ConcurrencyBound ==
    \A d \in Dirs : Cardinality({f \in Batch(d) : Active(f)}) <= threads_num

\* No thread of the run ended on an exception raised before its try block.
NoneDied == \A f \in Files : outcome[f] # "Died"

\* C2: a thread that acquired a permit and ended on one of the paths skip,
\* cancellation, missing button or href, HTTP error status, completion or
\* caught exception has called release exactly once, and the permits left
\* plus the threads holding one are threads_num.
C2_ReleaseExactlyOnce ==
    /\ \A f \in Files : Ended(f) /\ hist[f].acquired /\ outcome[f] # "Died"
                            => hist[f].releases = 1
    /\ \A d \in Dirs : BatchMade(d) =>
         limiter[d] + Cardinality({f \in Batch(d) :
                        hist[f].acquired /\ hist[f].releases = 0 /\ ~Ended(f)})
           = threads_num - Cardinality({f \in Batch(d) : outcome[f] = "Died"})

\* C3: when a batch that was not cancelled, and whose threads all ended
\* skipped, completed or failed, reaches progress.finish(),
\* completed_files + failed_files + skipped_files = total_files.
C3_CountersAddUp ==
    mpc = "finish" /\ NoneDied =>
        Counted(progress[Cur.folder_key]) = progress[Cur.folder_key].total_files

\* C4: when the KeyboardInterrupt handler of download_folder is past its
\* joins, every thread of the batch has ended, and the path of a thread that
\* ended neither Completed nor Skipped holds nothing this run opened for
\* writing: it is empty, or holds the entry the thread could not read.
C4_CancelLeavesNoPartialFile ==
    \A d \in Dirs : event[d] /\ mpc = "exited" =>
        \A f \in Batch(d) :
            /\ Started(f) /\ Ended(f)
            /\ outcome[f] \notin {"Completed", "Skipped"} =>
                 \/ fs[f] = Absent
                 \/ outcome[f] = "Died" /\ fs[f] = fs0[f] /\ ~hist[f].opened

C4_Witness ==
    \E d \in Dirs : /\ event[d] /\ mpc = "exited"
                    /\ \E f \in Batch(d) : hist[f].sawCancel /\ fs[f] = Absent
                    /\ \E f \in Batch(d) : outcome[f] = "Completed"

\* C5: a thread that saw the event set at a chunk boundary has deleted its
\* file and adds nothing to completed_files or failed_files.
C5_CancelledNotCounted ==
    \A f \in Files : hist[f].sawCancel =>
        fs[f] = Absent /\ hist[f].completed = 0 /\ hist[f].failed = 0

\* C6: every started thread eventually ends and the main thread eventually
\* leaves the wait loop of download_folder.
C6_BatchTerminates ==
    /\ \A f \in Files : (tpc[f] = "acquire") ~> Ended(f)
    /\ (mpc = "wait") ~> (mpc # "wait")

AllGood(d) == Batch(d) # {} /\ \A f \in Batch(d) : fs0[f] = Good

\* C7: when every file of a folder's listing is there with the listed hash,
\* no thread of the batch issues a request or deletes or opens a file, and
\* once all have ended skipped_files = total_files, completed_files = 0 and
\* failed_files = 0.
C7_AllPresentAllSkipped ==
    \A d \in Dirs : AllGood(d) =>
        /\ \A f \in Batch(d) :
              /\ hist[f].requests = 0
              /\ ~hist[f].removed /\ ~hist[f].opened
              /\ fs[f] = fs0[f]
        /\ (\A f \in Batch(d) : Ended(f)) =>
              /\ progress[d].skipped_files = progress[d].total_files
              /\ progress[d].total_files = Cardinality(Batch(d))
              /\ progress[d].completed_files = 0
              /\ progress[d].failed_files = 0

C7_Witness ==
    \E d \in Dirs : /\ AllGood(d) /\ Cardinality(Batch(d)) >= 2
                    /\ \A f \in Batch(d) : Ended(f)
                    /\ progress[d].skipped_files = Cardinality(Batch(d))

\* C8: a file whose hash differs from the listed one is deleted before the
\* thread issues a request, what is then at the path has no byte of it, and
\* when the thread ends Completed the path holds exactly the bytes streamed.
C8_StaleFileReplaced ==
    \A f \in Files : fs0[f] = Stale =>
        /\ hist[f].requests > 0 => hist[f].removed
        /\ fs[f] # fs0[f] =>
              \A i \in 1..Len(fs[f].content) : fs[f].content[i].src = "run"
        /\ Ended(f) /\ outcome[f] = "Completed" =>
              fs[f] = FileOf(hist[f].streamed)

C8_Witness ==
    \E f \in Files : /\ fs0[f] = Stale /\ Ended(f) /\ outcome[f] = "Completed"
                     /\ fs[f] = FileOf(hist[f].streamed)
                     /\ hist[f].removed

\* The folders of the tree, parent before children, siblings in listing order.
RECURSIVE PreOrder(_)
RECURSIVE PreOrderAll(_)
PreOrder(d) == <<d>> \o PreOrderAll(RemoteFolders(d))
PreOrderAll(ds) ==
    IF ds = <<>> THEN <<>> ELSE PreOrder(Head(ds)) \o PreOrderAll(Tail(ds))

Range(s) == {s[i] : i \in 1..Len(s)}

IsPrefix(s, t) == Len(s) <= Len(t) /\ s = SubSeq(t, 1, Len(s))

\* C9: threads are alive in at most one folder's batch, the folder
\* download_folder was last called for; the threads of every other folder
\* have ended; and the folders are visited in pre-order.
C9_OneBatchPreOrder ==
    /\ Cardinality({d \in Dirs : \E f \in Batch(d) : is_alive(f)}) <= 1
    /\ \A f \in Files : Started(f) /\ ~Ended(f) =>
          visited # <<>> /\ dirOf[f] = visited[Len(visited)]
    /\ IsPrefix(visited, PreOrder(RootKey))

C9_Witness ==
    /\ Len(visited) = 3
    /\ \E f \in Files : dirOf[f] = visited[3] /\ is_alive(f)
    /\ \E f \in Files : dirOf[f] = visited[1] /\ Ended(f)
    /\ \E f \in Files : dirOf[f] = visited[2] /\ Ended(f)

\* C10: once the event of a batch is set, the main thread is in the joins or
\* has exited: it lists no subfolder, enters no folder and starts no batch;
\* and the process exit status is 0.
C10_CancelStopsWalk ==
    \A d \in Dirs : event[d] =>
        /\ mpc \in {"join", "exited"}
        /\ visited[Len(visited)] = d
        /\ \A f \in Files : dirOf[f] \notin Range(visited) => tpc[f] = "none"
        /\ mpc = "exited" => exitStatus = 0

C10_Witness ==
    /\ event[RootKey]
    /\ mpc = "exited"
    /\ exitStatus = 0
    /\ visited = <<RootKey>>
    /\ \E f \in Files : dirOf[f] # RootKey

\* The files of the pages 1..n of a folder's file listing, in order.
RECURSIVE PagesUpTo(_, _)
PagesUpTo(d, n) ==
    IF n = 0 THEN <<>> ELSE PagesUpTo(d, n - 1) \o FilesPage(d, n).files

\* C11: download_folder requests the pages chunk = 1, 2, ... of the file
\* listing while the page before reported more_chunks and stops at the first
\* that does not; data holds the files of exactly the pages requested, and
\* the batch has one thread for each of them, none twice.
C11_ListingPagesAllDispatched ==
    LET d == Cur.folder_key
        n == chunk - 1
    IN /\ mpc = "list" =>
             /\ data = PagesUpTo(d, n)
             /\ \A c \in 1..(n - 1) : FilesPage(d, c).more_chunks
             /\ more_chunks = (n = 0 \/ FilesPage(d, n).more_chunks)
       /\ mpc \in {"start", "wait", "join", "finish"} =>
             /\ n >= 1
             /\ \A c \in 1..(n - 1) : FilesPage(d, c).more_chunks
             /\ ~FilesPage(d, n).more_chunks
             /\ data = PagesUpTo(d, n)
             /\ Cardinality(Range(data)) = Len(data)
             /\ {f \in Files : tpc[f] # "none" /\ dirOf[f] = d} = Range(data)
             /\ progress[d].total_files = Len(data)

C11_Witness ==
    /\ mpc = "wait"
    /\ chunk = 3
    /\ Len(data) = MaxFiles
    /\ \A f \in Files : tpc[f] # "none"

\* main returned from get_folders without an exception or exit().
WalkDone == mpc = "exited" /\ stack = <<>>

\* C12: when get_folders is through with the subfolders of a folder, every
\* subfolder of the remote listing has been visited, those on the second and
\* later pages of the listing too; when the walk is done, so has every folder
\* of the tree.
C12_AllSubfolderPagesVisited ==
    /\ mpc = "loop" /\ Cur.idx = Len(Cur.folders) =>
          Range(RemoteFolders(Cur.folder_key)) \subseteq Range(visited)
    /\ WalkDone => Range(PreOrder(RootKey)) \subseteq Range(visited)

\* C13: after a recursive get_folders call and the chdir("..") that follows
\* it, the working directory is the one that was current before the call.
C13_ChdirRestored ==
    mpc = "loop" /\ Cur.idx > 0 => cwd = Cur.before

Allowed(char) ==
    isalnum(char) \/ char \in NON_ALPHANUM_FILE_OR_FOLDER_NAME_CHARACTERS

\* C14: the filename computed for a listed name is a function of the name
\* alone, normalizing it again changes nothing, and it holds only letters,
\* digits and the characters of the allow list.
C14_NormalizeIdempotent ==
    \A i \in 1..Len(filenames) :
        /\ normalize_file_or_folder_name(filenames[i]) = filenames[i]
        /\ \A k \in 1..Len(filenames[i]) : Allowed(filenames[i][k])
        /\ Len(filenames[i]) = Len(listed_names[i])
        /\ \A j \in 1..Len(filenames) :
              listed_names[i] = listed_names[j] => filenames[i] = filenames[j]

C14_Witness ==
    /\ Len(filenames) = 2
    /\ \E k \in 1..Len(listed_names[1]) : ~Allowed(listed_names[1][k])
    /\ filenames[1] # listed_names[1]
    /\ filenames[2] = listed_names[2]
    /\ Len(listed_names[2]) = MaxLen

\* C15: the entries of a listing whose names are pairwise distinct get
\* pairwise distinct local filenames, so that their threads, which share the
\* working directory, have distinct target paths.
C15_DistinctNamesDistinctPaths ==
    \A i, j \in 1..Len(filenames) :
        listed_names[i] # listed_names[j] => filenames[i] # filenames[j]

Reports(f) == hist[f].completed + hist[f].failed + hist[f].skipped

\* C16: over its whole life a thread increments completed_files,
\* failed_files and skipped_files at most once in total, and it issues at
\* most two requests.
C16_ReportedAtMostOnce ==
    \A f \in Files : Reports(f) <= 1 /\ hist[f].requests <= 2

\* C17: when a thread has ended Failed, nothing is at its target path, it
\* has incremented failed_files, and failed_files is at least the number of
\* the batch's threads that ended Failed.
C17_FailedLeavesNoFile ==
    /\ \A f \in Files : Ended(f) /\ outcome[f] = "Failed" =>
            fs[f] = Absent /\ hist[f].failed >= 1
    /\ \A d \in Dirs : BatchMade(d) =>
            progress[d].failed_files >=
                Cardinality({f \in Batch(d) : Ended(f) /\ outcome[f] = "Failed"})

C17_Witness ==
    \E f, g \in Files :
        /\ Ended(f) /\ outcome[f] = "Failed"
        /\ hist[f].opened /\ Len(hist[f].streamed) = FileSize
        /\ fs[f] = Absent
        /\ Ended(g) /\ outcome[g] = "Failed" /\ ~hist[g].opened
        /\ dirOf[f] = dirOf[g] /\ fs0[g] = Stale

\* C18: a thread that acquired its permit after the event was set issues no
\* request, deletes and writes no local file and changes no counter of the
\* ProgressTracker.
C18_LateStartNoWork ==
    \A f \in Files : hist[f].lateStart =>
        /\ hist[f].requests = 0
        /\ ~hist[f].removed /\ ~hist[f].opened /\ fs[f] = fs0[f]
        /\ Reports(f) = 0 /\ hist[f].bytes = 0

\* C19: a thread that ended Skipped has added nothing to downloaded_bytes.
C19_SkipAddsNoBytes ==
    \A f \in Files : outcome[f] = "Skipped" => hist[f].bytes = 0

\* C20: in every state of a batch downloaded_bytes <= total_size, no stream
\* delivering more chunks than the file's listed size.
C20_BytesWithinTotal ==
    \A d \in Dirs : BatchMade(d) =>
        /\ progress[d].downloaded_bytes <= progress[d].total_size
        /\ \A f \in Batch(d) : hist[f].bytes <= file_size(f)

C20_Witness ==
    \E d \in Dirs :
        /\ BatchMade(d)
        /\ progress[d].downloaded_bytes = progress[d].total_size
        /\ \E f \in Batch(d) : outcome[f] = "Skipped" /\ Ended(f)
        /\ \E f \in Batch(d) : outcome[f] = "Failed" /\ hist[f].bytes > 0
        /\ \E f \in Batch(d) : outcome[f] = "Completed"

====
